---- MODULE Spec2Model ----
(***************************************************************************)
(* Model of the annotation layout pass of src/src/annotate_image.py.       *)
(*                                                                         *)
(* A pass is one call of annotate_image.  Passes holds the calls the model *)
(* follows; every variable is a function of the pass, because every value  *)
(* it models is a local of the call.  Strings are sequences of one-char    *)
(* strings, so that split, strip and the f-strings are computed on the     *)
(* characters, and cv2.getTextSize is the sum of the glyph widths.         *)
(***************************************************************************)
EXTENDS Integers, Sequences, FiniteSets, TLC

VARIABLES
    pc,                   \* position of each pass in annotate_image
    img_w, img_h,         \* image.shape[:2]
    ranked_profiles,      \* argument: sequence of <<id, score>> (score in 1/100)
    all_detections,       \* argument: sequence of [id, bbox]
    profiles_data,        \* argument: id -> [name, bio]
    detections_map,       \* local: id -> detection
    occupied_regions,     \* local: sequence of <<x1, y1, x2, y2>>
    idx,                  \* index of the loop over ranked_profiles
    lines_for_annotation, \* local: the wrapped lines of the current item
    text_w, text_h,       \* local: measured block of the current item
    cand,                 \* index of the candidate the inner loop is at
    best_pos,             \* local: None or <<x, y>>
    image,                \* the canvas: the drawing calls made on it, in order
    call                  \* a direct call of one of the module's functions: name, arguments, result

vars == <<pc, img_w, img_h, ranked_profiles, all_detections, profiles_data,
          detections_map, occupied_regions, idx, lines_for_annotation,
          text_w, text_h, cand, best_pos, image, call>>

Passes == {1, 2}

\* Python's None for best_pos (a position is a pair)
None == <<>>

\* Bounds of the model.
MaxItems == 3
PairMaxItems == 2
MaxBioLen == 5

(***************************************************************************)
(* Python helpers                                                          *)
(***************************************************************************)
Min(a, b) == IF a < b THEN a ELSE b

Max(a, b) == IF a > b THEN a ELSE b

\* text.split(' '): one token per separator plus one; tokens may be empty.
RECURSIVE SplitFrom(_, _, _)
SplitFrom(s, i, cur) ==
    IF i > Len(s) THEN <<cur>>
    ELSE IF s[i] = " " THEN <<cur>> \o SplitFrom(s, i + 1, <<>>)
    ELSE SplitFrom(s, i + 1, Append(cur, s[i]))

Split(s) == SplitFrom(s, 1, <<>>)

RECURSIVE LStrip(_)
LStrip(s) == IF s # <<>> /\ Head(s) = " " THEN LStrip(Tail(s)) ELSE s

RECURSIVE RStrip(_)
RStrip(s) ==
    IF s # <<>> /\ s[Len(s)] = " " THEN RStrip(SubSeq(s, 1, Len(s) - 1)) ELSE s

\* str.strip()
Strip(s) == RStrip(LStrip(s))

Digit(d) == <<"0", "1", "2", "3", "4", "5", "6", "7", "8", "9">>[d + 1]

RECURSIVE Digits(_)
Digits(n) == IF n < 10 THEN <<Digit(n)>> ELSE Append(Digits(n \div 10), Digit(n % 10))

\* f"{score:.2f}" of a score given in hundredths
FormatScore(score) ==
    LET a == IF score < 0 THEN 0 - score ELSE score
    IN  (IF score < 0 THEN <<"-">> ELSE <<>>)
        \o Digits(a \div 100) \o <<".">> \o <<Digit((a % 100) \div 10), Digit(a % 10)>>

(***************************************************************************)
(* cv2.getTextSize for FONT_HERSHEY_SIMPLEX at scale 0.35, thickness 1:    *)
(* a proportional font; the width of a string is the sum of its glyphs.    *)
(***************************************************************************)
GlyphW(c) == IF c = "M" THEN 240 ELSE IF c = "W" THEN 60 ELSE IF c = " " THEN 4 ELSE 6

RECURSIVE getTextSize(_)
getTextSize(s) == IF s = <<>> THEN 0 ELSE GlyphW(Head(s)) + getTextSize(Tail(s))

\* cv2.getTextSize("Tg", ...)[0][1]
sample_line_height == 8

text_block_max_width == 250

qr_box_padding == 5

padding == 5

line_spacing == 5

box_thickness == 2

\* get_color_for_relevance with the middle tier folded into the low one
get_color_for_relevance_exclusive(score) ==
    LET s == Max(0, Min(100, score))
    IN  IF s < 33 THEN <<0, 0, 255>>
        ELSE IF s < 66 THEN <<0, 255, 255>>
        ELSE <<0, 255, 0>>

get_color_for_relevance_swapped(score) ==
    LET s == Max(0, Min(100, score))
    IN  IF s <= 33 THEN <<0, 0, 255>>
        ELSE IF s <= 66 THEN <<0, 255, 0>>
        ELSE <<0, 255, 255>>

get_color_for_relevance_noMid(score) ==
    LET s == Max(0, Min(100, score))
    IN  IF s <= 66 THEN <<0, 0, 255>> ELSE <<0, 255, 0>>

(***************************************************************************)
(* get_color_for_relevance, scores in hundredths, colours as BGR           *)
(***************************************************************************)
get_color_for_relevance(score) ==
    LET s == Max(0, Min(100, score))
    IN  IF s <= 33 THEN <<0, 0, 255>>
        ELSE IF s <= 66 THEN <<0, 255, 255>>
        ELSE <<0, 255, 0>>

(***************************************************************************)
(* Block measurement and drawing                                           *)
(***************************************************************************)
RECURSIVE MaxLineWidth(_)
MaxLineWidth(lines) ==
    IF lines = <<>> THEN 0
    ELSE Max(getTextSize(Head(lines)), MaxLineWidth(Tail(lines)))

\* get_text_block_dimensions without the min of line 104
get_text_block_dimensions_noClamp(lines) ==
    IF lines = <<>> THEN <<0, 0>>
    ELSE <<MaxLineWidth(lines) + 2 * padding,
           Len(lines) * (sample_line_height + line_spacing) - line_spacing + 2 * padding>>

get_text_block_dimensions(lines) ==
    IF lines = <<>> THEN <<0, 0>>
    ELSE LET line_height_with_spacing == sample_line_height + line_spacing
             bg_width == Min(MaxLineWidth(lines), text_block_max_width)
             bg_height == Len(lines) * line_height_with_spacing - line_spacing
         IN  <<bg_width + 2 * padding, bg_height + 2 * padding>>

\* draw_multiline_text_with_background without the min of line 67
draw_multiline_text_with_background_noClamp(lines, x, y) ==
    IF lines = <<>> THEN <<x, y, x, y>>
    ELSE LET line_height_with_spacing == sample_line_height + line_spacing
             bg_width == MaxLineWidth(lines)
             bg_height == Len(lines) * line_height_with_spacing - line_spacing
         IN  <<x - padding, y - padding, x + bg_width + padding, y + bg_height + padding>>

\* The bounding box draw_multiline_text_with_background returns.
draw_multiline_text_with_background(lines, x, y) ==
    IF lines = <<>> THEN <<x, y, x, y>>
    ELSE LET line_height_with_spacing == sample_line_height + line_spacing
             bg_width == Min(MaxLineWidth(lines), text_block_max_width)
             bg_height == Len(lines) * line_height_with_spacing - line_spacing
         IN  <<x - padding, y - padding, x + bg_width + padding, y + bg_height + padding>>

\* check_overlap with strict comparisons at line 117
check_overlap_touching(rect1, rect2) ==
    IF rect1[1] > rect2[3] \/ rect1[3] < rect2[1]
       \/ rect1[2] > rect2[4] \/ rect1[4] < rect2[2]
    THEN FALSE
    ELSE TRUE

check_overlap(rect1, rect2) ==
    IF rect1[1] >= rect2[3] \/ rect1[3] <= rect2[1]
       \/ rect1[2] >= rect2[4] \/ rect1[4] <= rect2[2]
    THEN FALSE
    ELSE TRUE

(***************************************************************************)
(* The bio wrap of annotate_image (lines 179-204)                          *)
(***************************************************************************)
BioPrefix == <<"B", "i", "o", ":">>

\* WrapBio that never starts a new line
RECURSIVE WrapBio_noFlush(_, _, _)
WrapBio_noFlush(bio_words, current_bio_line, lines) ==
    IF bio_words = <<>>
    THEN IF current_bio_line # <<>> THEN Append(lines, current_bio_line) ELSE lines
    ELSE WrapBio_noFlush(Tail(bio_words),
                         Strip(current_bio_line \o <<" ">> \o Head(bio_words)), lines)

\* WrapBio that drops a last line holding nothing but the prefix
RECURSIVE WrapBio_prefixAfter(_, _, _)
WrapBio_prefixAfter(bio_words, current_bio_line, lines) ==
    IF bio_words = <<>>
    THEN IF current_bio_line # <<>> /\ current_bio_line # BioPrefix
         THEN Append(lines, current_bio_line) ELSE lines
    ELSE LET word == Head(bio_words)
             test_line == Strip(current_bio_line \o <<" ">> \o word)
             line_w == getTextSize(test_line)
         IN  IF line_w > text_block_max_width /\ current_bio_line # BioPrefix
             THEN WrapBio_prefixAfter(Tail(bio_words), word, Append(lines, current_bio_line))
             ELSE WrapBio_prefixAfter(Tail(bio_words), test_line, lines)

RECURSIVE WrapBio(_, _, _)
WrapBio(bio_words, current_bio_line, lines) ==
    IF bio_words = <<>>
    THEN IF current_bio_line # <<>> THEN Append(lines, current_bio_line) ELSE lines
    ELSE LET word == Head(bio_words)
             test_line == Strip(current_bio_line \o <<" ">> \o word)
             line_w == getTextSize(test_line)
         IN  IF line_w > text_block_max_width /\ current_bio_line # BioPrefix
             THEN WrapBio(Tail(bio_words), word, Append(lines, current_bio_line))
             ELSE WrapBio(Tail(bio_words), test_line, lines)

\* The characters of an id, for the items whose name falls back to the id.
IdChars(id) == <<"i", "d">> \o Digits(CHOOSE n \in 1..9 : id = <<"id1", "id2", "id3", "id4",
                                  "id5", "id6", "id7", "id8", "id9">>[n])

\* a key a profile lacks (a string is a sequence of single characters)
Absent == <<"absent">>

DefaultBio == <<"B", "i", "o", " ", "n", "o", "t", " ",
                "a", "v", "a", "i", "l", "a", "b", "l", "e", ".">>

\* profile_info.get("name", profile_id) if profile_info else profile_id
name_to_display(profiles, profile_id) ==
    IF profile_id \in DOMAIN profiles /\ profiles[profile_id].name # Absent
    THEN profiles[profile_id].name
    ELSE IdChars(profile_id)

\* profile_info.get("bio", "Bio not available.") if profile_info else "Bio not available."
bio_to_display(profiles, profile_id) ==
    IF profile_id \in DOMAIN profiles /\ profiles[profile_id].bio # Absent
    THEN profiles[profile_id].bio
    ELSE DefaultBio

\* lines_for_annotation as built by lines 175-204
BuildLines(profiles, profile_id, score) ==
    LET name_line == <<"N", "a", "m", "e", ":", " ">> \o name_to_display(profiles, profile_id)
        score_line == <<"S", "c", "o", "r", "e", ":", " ">> \o FormatScore(score)
    IN  WrapBio(Split(bio_to_display(profiles, profile_id)), BioPrefix,
                <<name_line, score_line>>)

(***************************************************************************)
(* Candidate search and fallback (lines 211-278)                           *)
(***************************************************************************)
NumCandidates == 6

\* candidate_positions whose Right candidate starts inside the anchor
candidate_positions_rightInside(bbox, tw, th) ==
    LET qr_x == bbox[1]
        qr_y == bbox[2]
        qr_w == bbox[3]
        qr_h == bbox[4]
    IN  << <<qr_x + qr_w - qr_box_padding, qr_y>>,
           <<qr_x - tw - qr_box_padding, qr_y>>,
           <<qr_x, qr_y + qr_h + qr_box_padding>>,
           <<qr_x, qr_y - th - qr_box_padding>>,
           <<qr_x + (qr_w \div 2) - (tw \div 2), qr_y + qr_h + qr_box_padding>>,
           <<qr_x + (qr_w \div 2) - (tw \div 2), qr_y - th - qr_box_padding>> >>

candidate_positions(bbox, tw, th) ==
    LET qr_x == bbox[1]
        qr_y == bbox[2]
        qr_w == bbox[3]
        qr_h == bbox[4]
    IN  << <<qr_x + qr_w + qr_box_padding, qr_y>>,
           <<qr_x - tw - qr_box_padding, qr_y>>,
           <<qr_x, qr_y + qr_h + qr_box_padding>>,
           <<qr_x, qr_y - th - qr_box_padding>>,
           <<qr_x + (qr_w \div 2) - (tw \div 2), qr_y + qr_h + qr_box_padding>>,
           <<qr_x + (qr_w \div 2) - (tw \div 2), qr_y - th - qr_box_padding>> >>

padding_for_bg == 5

\* candidate_rect of lines 231-240
candidate_rect(pos, tw, th) ==
    <<pos[1] - padding_for_bg, pos[2] - padding_for_bg,
      pos[1] + tw - padding_for_bg, pos[2] + th - padding_for_bg>>

\* OutOfBounds with the right and bottom edges compared by >=
OutOfBounds_edgeRejected(rect, w, h) ==
    rect[1] < 0 \/ rect[2] < 0 \/ rect[3] >= w \/ rect[4] >= h

\* the test of line 237
OutOfBounds(rect, w, h) == rect[1] < 0 \/ rect[2] < 0 \/ rect[3] > w \/ rect[4] > h

\* is_overlapping looking at the last registered region only
is_overlapping_lastOnly(rect, regions) ==
    IF regions = <<>> THEN FALSE ELSE check_overlap(rect, regions[Len(regions)])

\* is_overlapping with the scan left out
is_overlapping_never(rect, regions) == FALSE

\* the scan of lines 241-245
RECURSIVE is_overlapping(_, _)
is_overlapping(rect, regions) ==
    IF regions = <<>> THEN FALSE
    ELSE IF check_overlap(rect, Head(regions)) THEN TRUE
    ELSE is_overlapping(rect, Tail(regions))

\* fallback_pos clamping the text, not its padded background, to the canvas
fallback_pos_clampsText(bbox, tw, th, w, h) ==
    LET x0 == bbox[1] + bbox[3] + 5
        y0 == bbox[2] + 5
        x1 == IF x0 + tw - 5 > w THEN w - tw + 10 ELSE x0
        y1 == IF y0 + th - 5 > h THEN h - th + 10 ELSE y0
    IN  <<IF x1 < 5 THEN 5 ELSE x1, IF y1 < 5 THEN 5 ELSE y1>>

\* fallback_pos without the vertical offset of line 256
fallback_pos_noOffset(bbox, tw, th, w, h) ==
    LET x0 == bbox[1] + bbox[3] + 5
        y0 == bbox[2]
        x1 == IF x0 + tw - 5 > w THEN w - tw + 5 ELSE x0
        y1 == IF y0 + th - 5 > h THEN h - th + 5 ELSE y0
    IN  <<IF x1 < 5 THEN 5 ELSE x1, IF y1 < 5 THEN 5 ELSE y1>>

\* fallback_pos without the clamp of the right and bottom edges
fallback_pos_noClamp(bbox, tw, th, w, h) ==
    LET x0 == bbox[1] + bbox[3] + 5
        y0 == bbox[2] + 5
    IN  <<IF x0 < 5 THEN 5 ELSE x0, IF y0 < 5 THEN 5 ELSE y0>>

fallback_offset == 5

\* lines 255-265
fallback_pos(bbox, tw, th, w, h) ==
    LET x0 == bbox[1] + bbox[3] + qr_box_padding
        y0 == bbox[2] + fallback_offset
        x1 == IF x0 + tw - 5 > w THEN w - tw + 5 ELSE x0
        y1 == IF y0 + th - 5 > h THEN h - th + 5 ELSE y0
        x2 == IF x1 < 5 THEN 5 ELSE x1
        y2 == IF y1 < 5 THEN 5 ELSE y1
    IN  <<x2, y2>>

bg_padding == 5

\* lines 268-278
final_text_pos(pos) ==
    <<IF pos[1] - bg_padding < 0 THEN bg_padding ELSE pos[1],
      IF pos[2] - bg_padding < 0 THEN bg_padding ELSE pos[2]>>

(***************************************************************************)
(* rank_profiles of score_relevance.py (lines 55-91); relevance in 1/100    *)
(***************************************************************************)
\* the loop of lines 71-81: the detected ids that have a profile with a
\* relevance, in detection order, each paired with its relevance
RECURSIVE candidate_profiles_with_scores(_, _)
candidate_profiles_with_scores(detected_ids, all_profiles_data) ==
    IF detected_ids = <<>> THEN <<>>
    ELSE LET pid == Head(detected_ids)
             rest == candidate_profiles_with_scores(Tail(detected_ids), all_profiles_data)
         IN  IF pid \in DOMAIN all_profiles_data
                /\ "relevance" \in DOMAIN all_profiles_data[pid]
             THEN <<<<pid, all_profiles_data[pid].relevance>>>> \o rest
             ELSE rest

\* InsertDesc that puts an entry before the entries of equal score
InsertDesc_tiesReversed(x, sorted) ==
    LET before == SelectSeq(sorted, LAMBDA e : e[2] > x[2])
        after == SelectSeq(sorted, LAMBDA e : e[2] <= x[2])
    IN  before \o <<x>> \o after

\* an entry put into a list sorted by descending score, behind the entries of
\* equal score
InsertDesc(x, sorted) ==
    LET before == SelectSeq(sorted, LAMBDA e : e[2] >= x[2])
        after == SelectSeq(sorted, LAMBDA e : e[2] < x[2])
    IN  before \o <<x>> \o after

\* list.sort(key=lambda x: x[1], reverse=True): stable, descending
RECURSIVE SortDesc(_)
SortDesc(s) ==
    IF s = <<>> THEN <<>>
    ELSE InsertDesc(s[Len(s)], SortDesc(SubSeq(s, 1, Len(s) - 1)))

\* s[:k]
SliceTo(s, k) ==
    IF k >= 0 THEN SubSeq(s, 1, Min(k, Len(s))) ELSE SubSeq(s, 1, Max(0, Len(s) + k))

rank_profiles(detected_ids, all_profiles_data, top_k) ==
    IF detected_ids = <<>> THEN <<>>
    ELSE IF DOMAIN all_profiles_data = {} THEN <<>>
    ELSE LET candidates == candidate_profiles_with_scores(detected_ids, all_profiles_data)
         IN  IF candidates = <<>> THEN <<>>
             ELSE SliceTo(SortDesc(candidates), top_k)

(***************************************************************************)
(* Inputs                                                                  *)
(***************************************************************************)
SeqsUpTo(S, n) == UNION {[1..k -> S] : k \in 0..n}

Entries == {<<"id1", 95>>, <<"id2", 50>>, <<"id3", 20>>, <<"id4", 70>>}

PairEntries == {<<"id1", 95>>, <<"id2", 50>>}

\* bbox = (x, y, w, h)
Boxes == {<<20, 5, 40, 40>>, <<130, 60, 40, 40>>, <<0, 0, 30, 30>>}

Layouts ==
    {<<[id |-> "id1", bbox |-> b1], [id |-> "id2", bbox |-> b2], [id |-> "id3", bbox |-> b3]>> :
        b1 \in Boxes, b2 \in Boxes, b3 \in {<<0, 0, 30, 30>>}}

PairLayouts ==
    {<<[id |-> "id1", bbox |-> <<20, 5, 40, 40>>], [id |-> "id2", bbox |-> b2]>> :
        b2 \in {<<20, 5, 40, 40>>, <<70, 10, 40, 40>>}}

\* <<img_w, img_h>>
Canvases == {<<300, 200>>, <<214, 144>>}

PairCanvases == {<<300, 200>>}

Profiles1 ==
    [i \in {"id1", "id2", "id4"} |->
        IF i = "id1" THEN [name |-> <<"a">>, bio |-> <<"W">>]
        ELSE IF i = "id2" THEN [name |-> <<"W">>, bio |-> <<"W", " ", "W", " ", "W", " ", "W">>]
        ELSE [name |-> <<"a">>, bio |-> <<"a">>]]

ProfileSets == {Profiles1}

(***************************************************************************)
(* The pass                                                                *)
(***************************************************************************)
\* no function has been called directly
NoCall == [fn |-> "none", args |-> <<>>, ret |-> <<>>]

\* the state of a call that has not started
Fresh(active) ==
    /\ pc = [p \in Passes |-> IF p \in active THEN "start" ELSE "idle"]
    /\ detections_map = [p \in Passes |-> <<>>]
    /\ occupied_regions = [p \in Passes |-> <<>>]
    /\ idx = [p \in Passes |-> 0]
    /\ lines_for_annotation = [p \in Passes |-> <<>>]
    /\ text_w = [p \in Passes |-> 0]
    /\ text_h = [p \in Passes |-> 0]
    /\ cand = [p \in Passes |-> 0]
    /\ best_pos = [p \in Passes |-> None]
    /\ image = [p \in Passes |-> <<>>]
    /\ call = [p \in Passes |-> NoCall]

\* one call of annotate_image
Init ==
    /\ \E c \in Canvases, l \in Layouts, r \in SeqsUpTo(Entries, MaxItems), d \in ProfileSets :
         /\ img_w = [p \in Passes |-> c[1]]
         /\ img_h = [p \in Passes |-> c[2]]
         /\ all_detections = [p \in Passes |-> IF p = 1 THEN l ELSE <<>>]
         /\ ranked_profiles = [p \in Passes |-> IF p = 1 THEN r ELSE <<>>]
         /\ profiles_data = [p \in Passes |-> d]
    /\ Fresh({1})

\* two calls, each on its own image and lists
InitPair ==
    /\ \E c \in [Passes -> PairCanvases], l \in [Passes -> PairLayouts],
          r \in [Passes -> SeqsUpTo(PairEntries, PairMaxItems)], d \in ProfileSets :
         /\ img_w = [p \in Passes |-> c[p][1]]
         /\ img_h = [p \in Passes |-> c[p][2]]
         /\ all_detections = l
         /\ ranked_profiles = r
         /\ profiles_data = [p \in Passes |-> d]
    /\ Fresh(Passes)

\* the list and the detections of the second image of InitBeside
BesideRanked == <<<<"id2", 50>>, <<"id1", 95>>>>

BesideLayout ==
    <<[id |-> "id1", bbox |-> <<20, 5, 40, 40>>], [id |-> "id2", bbox |-> <<70, 10, 40, 40>>]>>

\* a call on any image and list, beside a call on a second, fixed image
InitBeside ==
    /\ \E c \in PairCanvases, l \in PairLayouts,
          r \in SeqsUpTo(PairEntries, PairMaxItems), d \in ProfileSets :
         /\ img_w = [p \in Passes |-> c[1]]
         /\ img_h = [p \in Passes |-> c[2]]
         /\ all_detections = [p \in Passes |-> IF p = 1 THEN l ELSE BesideLayout]
         /\ ranked_profiles = [p \in Passes |-> IF p = 1 THEN r ELSE BesideRanked]
         /\ profiles_data = [p \in Passes |-> d]
    /\ Fresh(Passes)

\* the characters of the bios of InitWrap
BioAlphabet == {"M", "a", " "}

\* a call on one detected item whose bio is any string over BioAlphabet
InitWrap ==
    /\ \E b \in SeqsUpTo(BioAlphabet, MaxBioLen) :
         profiles_data = [p \in Passes |-> [i \in {"id1"} |-> [name |-> <<"a">>, bio |-> b]]]
    /\ img_w = [p \in Passes |-> 214]
    /\ img_h = [p \in Passes |-> 144]
    /\ all_detections =
          [p \in Passes |-> IF p = 1 THEN <<[id |-> "id1", bbox |-> <<130, 60, 40, 40>>]>> ELSE <<>>]
    /\ ranked_profiles = [p \in Passes |-> IF p = 1 THEN <<<<"id1", 95>>>> ELSE <<>>]
    /\ Fresh({1})

\* the detections of the scenes of InitScene: the first two detections of the
\* overlap-avoidance test, and the first with a second anchor in the corner
SceneLayouts ==
    {<<[id |-> "id1", bbox |-> <<100, 100, 80, 80>>], [id |-> "id2", bbox |-> b2]>> :
        b2 \in {<<120, 120, 70, 70>>, <<0, 0, 30, 30>>}}

\* a call on the 1024 x 768 canvas of the overlap-avoidance test
InitScene ==
    /\ \E l \in SceneLayouts, r \in SeqsUpTo(PairEntries, PairMaxItems),
          b \in SeqsUpTo(BioAlphabet, 2) :
         /\ all_detections = [p \in Passes |-> IF p = 1 THEN l ELSE <<>>]
         /\ ranked_profiles = [p \in Passes |-> IF p = 1 THEN r ELSE <<>>]
         /\ profiles_data =
               [p \in Passes |-> [i \in {"id1", "id2"} |->
                   IF i = "id1" THEN [name |-> <<"a">>, bio |-> b] ELSE Profiles1["id2"]]]
    /\ img_w = [p \in Passes |-> 1024]
    /\ img_h = [p \in Passes |-> 768]
    /\ Fresh({1})

\* the entries of the lists of InitFair: id4 has no detection
FairEntries == {<<"id1", 95>>, <<"id2", 50>>, <<"id4", 70>>}

\* a call on a small canvas: the block of id2 is wider than the canvas and its
\* anchor is in the corner, so its placement is exhausted
InitFair ==
    /\ \E r \in SeqsUpTo(FairEntries, PairMaxItems) :
         ranked_profiles = [p \in Passes |-> IF p = 1 THEN r ELSE <<>>]
    /\ all_detections =
          [p \in Passes |->
              IF p = 1 THEN <<[id |-> "id1", bbox |-> <<130, 60, 40, 40>>],
                              [id |-> "id2", bbox |-> <<0, 0, 30, 30>>]>>
              ELSE <<>>]
    /\ profiles_data = [p \in Passes |-> Profiles1]
    /\ img_w = [p \in Passes |-> 214]
    /\ img_h = [p \in Passes |-> 144]
    /\ Fresh({1})

\* canvases around the sizes of the blocks of Profiles1 (98 x 44 and 226 x 57)
ClampCanvases == {<<214, 144>>, <<300, 40>>, <<120, 60>>}

\* anchors at a corner, in the middle and at the far edges of those canvases
ClampAnchors == {<<0, 0, 30, 30>>, <<40, 10, 40, 40>>, <<180, 110, 30, 30>>}

\* a call on a canvas that a block may or may not fit in
InitClamp ==
    /\ \E c \in ClampCanvases, a \in ClampAnchors, r \in SeqsUpTo(FairEntries, PairMaxItems) :
         /\ img_w = [p \in Passes |-> c[1]]
         /\ img_h = [p \in Passes |-> c[2]]
         /\ all_detections =
               [p \in Passes |->
                   IF p = 1 THEN <<[id |-> "id1", bbox |-> a],
                                   [id |-> "id2", bbox |-> <<130, 60, 40, 40>>]>>
                   ELSE <<>>]
         /\ ranked_profiles = [p \in Passes |-> IF p = 1 THEN r ELSE <<>>]
    /\ profiles_data = [p \in Passes |-> Profiles1]
    /\ Fresh({1})

\* {det["id"]: det for det in all_detections}: the last detection of an id wins
BuildDetectionsMap(dets) ==
    LET ids == {dets[i].id : i \in DOMAIN dets}
        last(id) == CHOOSE i \in DOMAIN dets :
                        /\ dets[i].id = id
                        /\ \A j \in DOMAIN dets : dets[j].id = id => j <= i
    IN  [id \in ids |-> dets[last(id)]]

\* the current item of the loop of line 156
Item(p) == ranked_profiles[p][idx[p]]

Bbox(p) == detections_map[p][Item(p)[1]].bbox

\* lines 133-154
Begin(p) ==
    /\ pc[p] = "start"
    /\ detections_map' = [detections_map EXCEPT ![p] = BuildDetectionsMap(all_detections[p])]
    /\ occupied_regions' = [occupied_regions EXCEPT ![p] = <<>>]
    /\ pc' = [pc EXCEPT ![p] = "loop"]
    /\ UNCHANGED <<call, img_w, img_h, ranked_profiles, all_detections, profiles_data, idx,
                   lines_for_annotation, text_w, text_h, cand, best_pos, image>>

\* lines 156-158: the next item, skipped when it has no detection
NextItem(p) ==
    /\ pc[p] = "loop"
    /\ idx[p] < Len(ranked_profiles[p])
    /\ idx' = [idx EXCEPT ![p] = idx[p] + 1]
    /\ pc' = [pc EXCEPT ![p] =
                IF ranked_profiles[p][idx[p] + 1][1] \in DOMAIN detections_map[p]
                THEN "anchor" ELSE "loop"]
    /\ UNCHANGED <<call, img_w, img_h, ranked_profiles, all_detections, profiles_data,
                   detections_map, occupied_regions, lines_for_annotation,
                   text_w, text_h, cand, best_pos, image>>

\* the rectangle cv2.rectangle strokes at line 166
anchor_rect(bbox) == <<bbox[1], bbox[2], bbox[1] + bbox[3], bbox[2] + bbox[4]>>

\* lines 160-166
DrawAnchor(p) ==
    /\ pc[p] = "anchor"
    /\ image' = [image EXCEPT ![p] =
                   Append(@, [op |-> "rectangle", item |-> idx[p], rect |-> anchor_rect(Bbox(p)),
                              color |-> get_color_for_relevance(Item(p)[2]),
                              thickness |-> box_thickness])]
    /\ pc' = [pc EXCEPT ![p] = "wrap"]
    /\ UNCHANGED <<call, img_w, img_h, ranked_profiles, all_detections, profiles_data,
                   detections_map, occupied_regions, idx, lines_for_annotation,
                   text_w, text_h, cand, best_pos>>

\* lines 171-204
Wrap(p) ==
    /\ pc[p] = "wrap"
    /\ lines_for_annotation' = [lines_for_annotation EXCEPT ![p] =
                                  BuildLines(profiles_data[p], Item(p)[1], Item(p)[2])]
    /\ pc' = [pc EXCEPT ![p] = "measure"]
    /\ UNCHANGED <<call, img_w, img_h, ranked_profiles, all_detections, profiles_data,
                   detections_map, occupied_regions, idx, text_w, text_h, cand,
                   best_pos, image>>

\* lines 207-222
Measure(p) ==
    /\ pc[p] = "measure"
    /\ LET dims == get_text_block_dimensions(lines_for_annotation[p])
       IN  /\ text_w' = [text_w EXCEPT ![p] = dims[1]]
           /\ text_h' = [text_h EXCEPT ![p] = dims[2]]
           /\ pc' = [pc EXCEPT ![p] = IF dims[1] = 0 \/ dims[2] = 0 THEN "loop" ELSE "search"]
    /\ cand' = [cand EXCEPT ![p] = 1]
    /\ best_pos' = [best_pos EXCEPT ![p] = None]
    /\ UNCHANGED <<call, img_w, img_h, ranked_profiles, all_detections, profiles_data,
                   detections_map, occupied_regions, idx, lines_for_annotation, image>>

\* Accepts that also keeps the block off the anchor of every ranked item
Accepts_avoidsAnchors(p, k) ==
    LET pos == candidate_positions(Bbox(p), text_w[p], text_h[p])[k]
        rect == candidate_rect(pos, text_w[p], text_h[p])
    IN  /\ ~OutOfBounds(rect, img_w[p], img_h[p])
        /\ ~is_overlapping(rect, occupied_regions[p])
        /\ \A i \in DOMAIN ranked_profiles[p] :
              ranked_profiles[p][i][1] \in DOMAIN detections_map[p] =>
                 ~check_overlap(rect,
                      anchor_rect(detections_map[p][ranked_profiles[p][i][1]].bbox))

\* whether the loop of lines 224-249 accepts candidate k
Accepts(p, k) ==
    LET pos == candidate_positions(Bbox(p), text_w[p], text_h[p])[k]
        rect == candidate_rect(pos, text_w[p], text_h[p])
    IN  /\ ~OutOfBounds(rect, img_w[p], img_h[p])
        /\ ~is_overlapping(rect, occupied_regions[p])

\* one iteration of the loop of lines 224-249
TryCandidate(p) ==
    /\ pc[p] = "search"
    /\ cand[p] <= NumCandidates
    /\ IF Accepts(p, cand[p])
       THEN /\ best_pos' = [best_pos EXCEPT ![p] =
                              candidate_positions(Bbox(p), text_w[p], text_h[p])[cand[p]]]
            /\ pc' = [pc EXCEPT ![p] = "draw"]
            /\ UNCHANGED cand
       ELSE /\ cand' = [cand EXCEPT ![p] = cand[p] + 1]
            /\ pc' = [pc EXCEPT ![p] = IF cand[p] = NumCandidates THEN "fallback" ELSE "search"]
            /\ UNCHANGED best_pos
    /\ UNCHANGED <<call, img_w, img_h, ranked_profiles, all_detections, profiles_data,
                   detections_map, occupied_regions, idx, lines_for_annotation,
                   text_w, text_h, image>>

\* Fallback that gives the item up and leaves the loop
Fallback_aborts(p) ==
    /\ pc[p] = "fallback"
    /\ best_pos[p] = None
    /\ pc' = [pc EXCEPT ![p] = "aborted"]
    /\ UNCHANGED <<call, img_w, img_h, ranked_profiles, all_detections, profiles_data,
                   detections_map, occupied_regions, idx, lines_for_annotation,
                   text_w, text_h, cand, best_pos, image>>

\* lines 251-265
Fallback(p) ==
    /\ pc[p] = "fallback"
    /\ best_pos[p] = None
    /\ best_pos' = [best_pos EXCEPT ![p] =
                      fallback_pos(Bbox(p), text_w[p], text_h[p], img_w[p], img_h[p])]
    /\ pc' = [pc EXCEPT ![p] = "draw"]
    /\ UNCHANGED <<call, img_w, img_h, ranked_profiles, all_detections, profiles_data,
                   detections_map, occupied_regions, idx, lines_for_annotation,
                   text_w, text_h, cand, image>>

\* DrawBlock that registers the rectangle of a candidate only
DrawBlock_fallbackNotRegistered(p) ==
    /\ pc[p] = "draw"
    /\ LET pos == final_text_pos(best_pos[p])
           drawn_rect == draw_multiline_text_with_background(
                             lines_for_annotation[p], pos[1], pos[2])
       IN  /\ image' = [image EXCEPT ![p] =
                          Append(@, [op |-> "text_block", item |-> idx[p], rect |-> drawn_rect,
                                     cand |-> cand[p], lines |-> lines_for_annotation[p]])]
           /\ occupied_regions' = [occupied_regions EXCEPT ![p] =
                                     IF cand[p] > NumCandidates THEN @ ELSE Append(@, drawn_rect)]
    /\ pc' = [pc EXCEPT ![p] = "loop"]
    /\ UNCHANGED <<call, img_w, img_h, ranked_profiles, all_detections, profiles_data,
                   detections_map, idx, lines_for_annotation, text_w, text_h, cand, best_pos>>

\* DrawBlock that registers the rectangle at the head of occupied_regions
DrawBlock_registeredFirst(p) ==
    /\ pc[p] = "draw"
    /\ LET pos == final_text_pos(best_pos[p])
           drawn_rect == draw_multiline_text_with_background(
                             lines_for_annotation[p], pos[1], pos[2])
       IN  /\ image' = [image EXCEPT ![p] =
                          Append(@, [op |-> "text_block", item |-> idx[p], rect |-> drawn_rect,
                                     cand |-> cand[p], lines |-> lines_for_annotation[p]])]
           /\ occupied_regions' = [occupied_regions EXCEPT ![p] = <<drawn_rect>> \o @]
    /\ pc' = [pc EXCEPT ![p] = "loop"]
    /\ UNCHANGED <<call, img_w, img_h, ranked_profiles, all_detections, profiles_data,
                   detections_map, idx, lines_for_annotation, text_w, text_h, cand, best_pos>>

\* DrawBlock with occupied_regions a list shared by every call
DrawBlock_sharedRegions(p) ==
    /\ pc[p] = "draw"
    /\ LET pos == final_text_pos(best_pos[p])
           drawn_rect == draw_multiline_text_with_background(
                             lines_for_annotation[p], pos[1], pos[2])
       IN  /\ image' = [image EXCEPT ![p] =
                          Append(@, [op |-> "text_block", item |-> idx[p], rect |-> drawn_rect,
                                     cand |-> cand[p], lines |-> lines_for_annotation[p]])]
           /\ occupied_regions' = [q \in Passes |-> Append(occupied_regions[q], drawn_rect)]
    /\ pc' = [pc EXCEPT ![p] = "loop"]
    /\ UNCHANGED <<call, img_w, img_h, ranked_profiles, all_detections, profiles_data,
                   detections_map, idx, lines_for_annotation, text_w, text_h, cand, best_pos>>

\* lines 268-286: the block is drawn and its rectangle registered
DrawBlock(p) ==
    /\ pc[p] = "draw"
    /\ LET pos == final_text_pos(best_pos[p])
           drawn_rect == draw_multiline_text_with_background(
                             lines_for_annotation[p], pos[1], pos[2])
       IN  /\ image' = [image EXCEPT ![p] =
                          Append(@, [op |-> "text_block", item |-> idx[p], rect |-> drawn_rect,
                                     cand |-> cand[p], lines |-> lines_for_annotation[p]])]
           /\ occupied_regions' = [occupied_regions EXCEPT ![p] = Append(@, drawn_rect)]
    /\ pc' = [pc EXCEPT ![p] = "loop"]
    /\ UNCHANGED <<call, img_w, img_h, ranked_profiles, all_detections, profiles_data,
                   detections_map, idx, lines_for_annotation, text_w, text_h, cand, best_pos>>

\* lines 288-295: the loop is over and the image is written
Save(p) ==
    /\ pc[p] = "loop"
    /\ idx[p] = Len(ranked_profiles[p])
    /\ image' = [image EXCEPT ![p] = Append(@, [op |-> "imwrite"])]
    /\ pc' = [pc EXCEPT ![p] = "done"]
    /\ UNCHANGED <<call, img_w, img_h, ranked_profiles, all_detections, profiles_data,
                   detections_map, occupied_regions, idx, lines_for_annotation,
                   text_w, text_h, cand, best_pos>>

(***************************************************************************)
(* Direct calls of the module's functions, one call a pass                 *)
(***************************************************************************)
pass_vars == <<pc, img_w, img_h, ranked_profiles, all_detections, profiles_data,
               detections_map, occupied_regions, idx, lines_for_annotation,
               text_w, text_h, cand, best_pos, image>>

\* the lists of lines get_text_block_dimensions is called on: lines of width
\* 0, 6, 246 and 300 around text_block_max_width
FnLines == SeqsUpTo({<<>>, <<"a">>, <<"M", "a">>, <<"M", "W">>}, 2)

\* the rectangles check_overlap is called on: x1 < x2 and y1 < y2
FnIntervals == {<<0, 2>>, <<1, 3>>, <<2, 4>>, <<1, 2>>}

FnRects == {<<h[1], v[1], h[2], v[2]>> : h \in FnIntervals, v \in FnIntervals}

\* the scores get_color_for_relevance is called on, in hundredths
FnScores == -5..105

InitFn ==
    /\ img_w = [p \in Passes |-> 300]
    /\ img_h = [p \in Passes |-> 200]
    /\ all_detections = [p \in Passes |-> <<>>]
    /\ ranked_profiles = [p \in Passes |-> <<>>]
    /\ profiles_data = [p \in Passes |-> Profiles1]
    /\ Fresh({})

CallDimensions(p) ==
    /\ call[p] = NoCall
    /\ \E text_lines \in FnLines :
         call' = [call EXCEPT ![p] = [fn |-> "get_text_block_dimensions",
                                      args |-> <<text_lines>>,
                                      ret |-> get_text_block_dimensions(text_lines)]]
    /\ UNCHANGED pass_vars

CallOverlap(p) ==
    /\ call[p] = NoCall
    /\ \E rect1 \in FnRects, rect2 \in FnRects :
         call' = [call EXCEPT ![p] = [fn |-> "check_overlap",
                                      args |-> <<rect1, rect2>>,
                                      ret |-> check_overlap(rect1, rect2)]]
    /\ UNCHANGED pass_vars

CallColor(p) ==
    /\ call[p] = NoCall
    /\ \E score \in FnScores :
         call' = [call EXCEPT ![p] = [fn |-> "get_color_for_relevance",
                                      args |-> <<score>>,
                                      ret |-> get_color_for_relevance(score)]]
    /\ UNCHANGED pass_vars

\* the ids rank_profiles is called on: id3 has no profile
RankIds == {"id1", "id2", "id3", "id4"}

\* the profile data rank_profiles is called on: none, or profiles of which two
\* have the same relevance
RankProfiles ==
    {<<>>,
     [i \in {"id1", "id2", "id4"} |->
         [name |-> <<"a">>, bio |-> <<"a">>, relevance |-> IF i = "id1" THEN 95 ELSE 50]]}

CallRank(p) ==
    /\ call[p] = NoCall
    /\ \E detected_ids \in SeqsUpTo(RankIds, 3), all_profiles_data \in RankProfiles,
          top_k \in 0..3 :
         call' = [call EXCEPT ![p] = [fn |-> "rank_profiles",
                                      args |-> <<detected_ids, all_profiles_data, top_k>>,
                                      ret |-> rank_profiles(detected_ids, all_profiles_data,
                                                            top_k)]]
    /\ UNCHANGED pass_vars

NextRank == \E p \in Passes : CallRank(p)

SpecRank == InitFn /\ [][NextRank]_vars

\* the positions draw_multiline_text_with_background is called at
FnPositions == {<<5, 5>>, <<35, 0>>, <<185, 100>>}

CallDraw(p) ==
    /\ call[p] = NoCall
    /\ \E text_lines \in FnLines, position \in FnPositions :
         call' = [call EXCEPT ![p] =
                    [fn |-> "draw_multiline_text_with_background",
                     args |-> <<text_lines, position>>,
                     ret |-> draw_multiline_text_with_background(
                                 text_lines, position[1], position[2])]]
    /\ UNCHANGED pass_vars

NextFn ==
    \E p \in Passes :
        \/ CallDimensions(p)
        \/ CallOverlap(p)
        \/ CallColor(p)
        \/ CallDraw(p)

SpecFn == InitFn /\ [][NextFn]_vars

Next ==
    \E p \in Passes :
        \/ Begin(p)
        \/ NextItem(p)
        \/ DrawAnchor(p)
        \/ Wrap(p)
        \/ Measure(p)
        \/ TryCandidate(p)
        \/ Fallback(p)
        \/ DrawBlock(p)
        \/ Save(p)

Spec == Init /\ [][Next]_vars

SpecPair == InitPair /\ [][Next]_vars

SpecBeside == InitBeside /\ [][Next]_vars

SpecWrap == InitWrap /\ [][Next]_vars

SpecScene == InitScene /\ [][Next]_vars

SpecClamp == InitClamp /\ [][Next]_vars

(***************************************************************************)
(* run_image_processing_pipeline of main.py (lines 90-144)                 *)
(***************************************************************************)
TOP_K_RESULTS == 3

\* what detect_qr_codes may return for the input image: nothing, two codes
\* with a profile, a code without a profile, one code
PipelineDetections ==
    {<<>>,
     <<[id |-> "id1", bbox |-> <<130, 60, 40, 40>>], [id |-> "id2", bbox |-> <<0, 0, 30, 30>>]>>,
     <<[id |-> "id3", bbox |-> <<130, 60, 40, 40>>]>>,
     <<[id |-> "id2", bbox |-> <<130, 60, 40, 40>>]>>,
     <<[id |-> "id1", bbox |-> <<20, 5, 40, 40>>], [id |-> "id4", bbox |-> <<70, 10, 40, 40>>],
       [id |-> "id1", bbox |-> <<0, 0, 30, 30>>]>>}

\* the profiles of Profiles1 as load_profiles returns them, with a relevance
StoredProfiles ==
    [i \in DOMAIN Profiles1 |->
        [name |-> Profiles1[i].name, bio |-> Profiles1[i].bio,
         relevance |-> IF i = "id1" THEN 95 ELSE IF i = "id2" THEN 50 ELSE 70]]

\* what load_profiles may return: nothing (no file, bad JSON), every profile,
\* the profile of id4 only
PipelineProfiles == {<<>>, StoredProfiles, [i \in {"id4"} |-> StoredProfiles[i]]}

\* Detect that goes on to load the profiles whatever was detected
Detect_noReturn(p) ==
    /\ pc[p] = "detect"
    /\ \E detections \in PipelineDetections :
         all_detections' = [all_detections EXCEPT ![p] = detections]
    /\ pc' = [pc EXCEPT ![p] = "load"]
    /\ UNCHANGED <<call, img_w, img_h, ranked_profiles, profiles_data, detections_map,
                   occupied_regions, idx, lines_for_annotation, text_w, text_h, cand,
                   best_pos, image>>

\* lines 95-101: step 1, with the return of line 98
Detect(p) ==
    /\ pc[p] = "detect"
    /\ \E detections \in PipelineDetections :
         /\ all_detections' = [all_detections EXCEPT ![p] = detections]
         /\ pc' = [pc EXCEPT ![p] = IF detections = <<>> THEN "returned" ELSE "load"]
    /\ UNCHANGED <<call, img_w, img_h, ranked_profiles, profiles_data, detections_map,
                   occupied_regions, idx, lines_for_annotation, text_w, text_h, cand,
                   best_pos, image>>

\* lines 103-109: step 2, with the return of line 108
Load(p) ==
    /\ pc[p] = "load"
    /\ \E all_profiles_data \in PipelineProfiles :
         /\ profiles_data' = [profiles_data EXCEPT ![p] = all_profiles_data]
         /\ pc' = [pc EXCEPT ![p] = IF DOMAIN all_profiles_data = {} THEN "returned" ELSE "rank"]
    /\ UNCHANGED <<call, img_w, img_h, ranked_profiles, all_detections, detections_map,
                   occupied_regions, idx, lines_for_annotation, text_w, text_h, cand,
                   best_pos, image>>

\* lines 117-142: step 3 and the test of line 131; annotate_image is entered
\* at "start", without it the pipeline ends at line 144
Rank(p) ==
    /\ pc[p] = "rank"
    /\ LET detected_ids == [i \in DOMAIN all_detections[p] |-> all_detections[p][i].id]
           ranked_results == rank_profiles(detected_ids, profiles_data[p], TOP_K_RESULTS)
       IN  /\ ranked_profiles' = [ranked_profiles EXCEPT ![p] = ranked_results]
           /\ pc' = [pc EXCEPT ![p] = IF ranked_results = <<>> THEN "returned" ELSE "start"]
    /\ UNCHANGED <<call, img_w, img_h, all_detections, profiles_data, detections_map,
                   occupied_regions, idx, lines_for_annotation, text_w, text_h, cand,
                   best_pos, image>>

\* the pipeline is entered for an input image; nothing is detected, loaded or
\* ranked yet
InitPipeline ==
    /\ pc = [p \in Passes |-> IF p = 1 THEN "detect" ELSE "idle"]
    /\ \E c \in Canvases \cup ClampCanvases :
         /\ img_w = [p \in Passes |-> c[1]]
         /\ img_h = [p \in Passes |-> c[2]]
    /\ all_detections = [p \in Passes |-> <<>>]
    /\ profiles_data = [p \in Passes |-> <<>>]
    /\ ranked_profiles = [p \in Passes |-> <<>>]
    /\ detections_map = [p \in Passes |-> <<>>]
    /\ occupied_regions = [p \in Passes |-> <<>>]
    /\ idx = [p \in Passes |-> 0]
    /\ lines_for_annotation = [p \in Passes |-> <<>>]
    /\ text_w = [p \in Passes |-> 0]
    /\ text_h = [p \in Passes |-> 0]
    /\ cand = [p \in Passes |-> 0]
    /\ best_pos = [p \in Passes |-> None]
    /\ image = [p \in Passes |-> <<>>]
    /\ call = [p \in Passes |-> NoCall]

NextPipeline ==
    \E p \in Passes :
        \/ Detect(p)
        \/ Load(p)
        \/ Rank(p)
        \/ Begin(p)
        \/ NextItem(p)
        \/ DrawAnchor(p)
        \/ Wrap(p)
        \/ Measure(p)
        \/ TryCandidate(p)
        \/ Fallback(p)
        \/ DrawBlock(p)
        \/ Save(p)

SpecPipeline == InitPipeline /\ [][NextPipeline]_vars

\* the steps of a call other than the wrap of lines 171-204
NextButWrap ==
    \E p \in Passes :
        \/ Begin(p)
        \/ NextItem(p)
        \/ DrawAnchor(p)
        \/ Measure(p)
        \/ TryCandidate(p)
        \/ Fallback(p)
        \/ DrawBlock(p)
        \/ Save(p)

\* weak fairness of Wrap(p), its enabling condition written as its guard
WrapFairness == \A p \in Passes : []<>(pc[p] # "wrap") \/ []<><<Wrap(p)>>_vars

\* a call runs to its return: the interpreter takes the next step of a call
\* that has one
FairSpec == InitFair /\ [][Next]_vars /\ WF_vars(NextButWrap) /\ WrapFairness

(***************************************************************************)
(* Vocabulary of the properties                                            *)
(***************************************************************************)
\* the text blocks drawn by a pass, in drawing order
Blocks(p) == SelectSeq(image[p], LAMBDA o : o.op = "text_block")

\* the anchor boxes drawn by a pass, in drawing order
AnchorBoxes(p) == SelectSeq(image[p], LAMBDA o : o.op = "rectangle")

\* a rectangle inside [0,W] x [0,H] of the pass, edges included
InCanvas(r, p) == 0 <= r[1] /\ 0 <= r[2] /\ r[3] <= img_w[p] /\ r[4] <= img_h[p]

\* a rectangle no wider and no taller than the canvas of the pass
FitsCanvas(r, p) == r[3] - r[1] <= img_w[p] /\ r[4] - r[2] <= img_h[p]

\* strict overlap of the projections on both axes
Intersect(a, b) == a[1] < b[3] /\ b[1] < a[3] /\ a[2] < b[4] /\ b[2] < a[4]

\* a block placed by the fallback: the candidate loop ran past its last candidate
ByFallback(b) == b.cand > 6

\* the padded rectangle of a block of size tw x th whose text starts at pos
PaddedRect(pos, tw, th) == <<pos[1] - 5, pos[2] - 5, pos[1] + tw - 5, pos[2] + th - 5>>

\* the pass has a current item with a detection and a measured block
Placing(p) == pc[p] \in {"search", "fallback", "draw"}

\* candidate k of the current item is inside the canvas and free of every region
Acceptable(p, k) ==
    LET r == PaddedRect(candidate_positions(Bbox(p), text_w[p], text_h[p])[k],
                        text_w[p], text_h[p])
    IN  /\ InCanvas(r, p)
        /\ \A i \in DOMAIN occupied_regions[p] : ~Intersect(r, occupied_regions[p][i])

(***************************************************************************)
(* C1                                                                      *)
(***************************************************************************)
\* C1 as stated: every rectangle appended to occupied_regions lies inside the
\* canvas, for every canvas and every block size.
C1_EveryRegionInCanvas ==
    \A p \in Passes : \A i \in DOMAIN occupied_regions[p] :
        InCanvas(occupied_regions[p][i], p)

\* C1 (amended): every rectangle appended to occupied_regions whose block is no
\* wider and no taller than the canvas lies inside the canvas, whether it was
\* placed from a candidate or by the fallback.
C1_FittingRegionInCanvas ==
    \A p \in Passes : \A i \in DOMAIN occupied_regions[p] :
        FitsCanvas(occupied_regions[p][i], p) => InCanvas(occupied_regions[p][i], p)

\* a fallback block that the clamp moved back to the right edge is registered
C1_Witness ==
    \E p \in Passes : \E i \in DOMAIN Blocks(p) :
        /\ ByFallback(Blocks(p)[i])
        /\ Blocks(p)[i].rect = occupied_regions[p][i]
        /\ Blocks(p)[i].rect[3] = img_w[p]
        /\ InCanvas(Blocks(p)[i].rect, p)

(***************************************************************************)
(* C2                                                                      *)
(***************************************************************************)
\* C2: a step of the candidate loop that sets best_pos sets it to a position
\* whose padded rectangle has no edge outside the canvas, and a candidate that
\* overlaps nothing and lies in the canvas, edges on the canvas edge included,
\* is accepted by the step that tests it.
C2_AcceptedInsideCanvas ==
    [][\A p \in Passes :
         (pc[p] = "search" /\ <<pc[p], cand[p]>> # <<pc'[p], cand'[p]>>) =>
            /\ pc'[p] = "draw" =>
                  InCanvas(PaddedRect(best_pos'[p], text_w[p], text_h[p]), p)
            /\ Acceptable(p, cand[p]) => pc'[p] = "draw"]_vars

\* a candidate whose right or bottom edge lies on the canvas edge has been accepted
C2_Witness ==
    \E p \in Passes :
        /\ pc[p] = "draw"
        /\ cand[p] <= 6
        /\ LET r == PaddedRect(best_pos[p], text_w[p], text_h[p])
           IN  r[3] = img_w[p] \/ r[4] = img_h[p]

(***************************************************************************)
(* C3                                                                      *)
(***************************************************************************)
\* C3: a block placed from an accepted candidate intersects no rectangle
\* registered earlier in the pass: of two registered rectangles that overlap,
\* the later one was placed by the fallback.
C3_CandidateBlocksDisjoint ==
    \A p \in Passes :
        /\ Len(Blocks(p)) = Len(occupied_regions[p])
        /\ \A j \in DOMAIN Blocks(p) :
              /\ occupied_regions[p][j] = Blocks(p)[j].rect
              /\ \A i \in 1..(j - 1) :
                    check_overlap(occupied_regions[p][j], occupied_regions[p][i])
                        => ByFallback(Blocks(p)[j])

\* a later block took a candidate after an earlier block made it reject one
C3_Witness ==
    \E p \in Passes : \E j \in DOMAIN Blocks(p) :
        /\ j > 1
        /\ Blocks(p)[j].cand \in 2..6
        /\ \E i \in 1..(j - 1) : Blocks(p)[i].cand = 1

(***************************************************************************)
(* C4                                                                      *)
(***************************************************************************)
\* C4: the position the search chooses is the lowest-numbered candidate, in
\* the order Right, Left, Below, Above, Centered-below, Centered-above, that is
\* inside the canvas and overlaps no occupied region; the search is exhausted
\* if and only if all six candidates are rejected.
C4_FirstAcceptableCandidate ==
    \A p \in Passes :
        pc[p] \in {"fallback", "draw"} =>
            LET ok == {k \in 1..6 : Acceptable(p, k)}
            IN  /\ (cand[p] > 6) <=> (ok = {})
                /\ cand[p] <= 6 =>
                      /\ cand[p] \in ok
                      /\ \A k \in ok : cand[p] <= k
                      /\ best_pos[p] =
                            candidate_positions(Bbox(p), text_w[p], text_h[p])[cand[p]]
                /\ pc[p] = "fallback" => cand[p] > 6

\* the search took a later candidate although an earlier one was in the canvas
C4_Witness ==
    \E p \in Passes :
        /\ pc[p] = "draw"
        /\ cand[p] \in 3..6
        /\ \E k \in 1..(cand[p] - 1) :
              InCanvas(PaddedRect(candidate_positions(Bbox(p), text_w[p], text_h[p])[k],
                                  text_w[p], text_h[p]), p)

(***************************************************************************)
(* C5                                                                      *)
(***************************************************************************)
\* the anchor of the current item as (x1, y1, x2, y2), and its margin
AnchorOf(p) ==
    LET d == CHOOSE i \in DOMAIN all_detections[p] :
                 /\ all_detections[p][i].id = ranked_profiles[p][idx[p]][1]
                 /\ \A j \in DOMAIN all_detections[p] :
                       all_detections[p][j].id = all_detections[p][i].id => j <= i
        b == all_detections[p][d].bbox
    IN  <<b[1], b[2], b[1] + b[3], b[2] + b[4]>>

Margin == 5

\* C5: each candidate position is the top-left corner of the padded rectangle
\* that is tested, and that rectangle is offset from the anchor by exactly the
\* margin on the side it is placed (Right: x1 = anchor.x2 + margin, Left:
\* x2 = anchor.x1 - margin, Below: y1 = anchor.y2 + margin, Above: y2 =
\* anchor.y1 - margin), aligned with the anchor's top, left or centre.
C5_CandidateRectOffsetByMargin ==
    \A p \in Passes :
        (pc[p] = "search" /\ cand[p] <= 6) =>
            LET a == AnchorOf(p)
                k == cand[p]
                pos == candidate_positions(Bbox(p), text_w[p], text_h[p])[k]
                r == candidate_rect(pos, text_w[p], text_h[p])
                cx == a[1] + ((a[3] - a[1]) \div 2) - (text_w[p] \div 2)
            IN  /\ pos = <<r[1], r[2]>>
                /\ k = 1 => r[1] = a[3] + Margin /\ r[2] = a[2]
                /\ k = 2 => r[3] = a[1] - Margin /\ r[2] = a[2]
                /\ k = 3 => r[2] = a[4] + Margin /\ r[1] = a[1]
                /\ k = 4 => r[4] = a[2] - Margin /\ r[1] = a[1]
                /\ k = 5 => r[2] = a[4] + Margin /\ r[1] = cx
                /\ k = 6 => r[4] = a[2] - Margin /\ r[1] = cx

(***************************************************************************)
(* C6                                                                      *)
(***************************************************************************)
\* where the fallback starts: right of the anchor, 5 below its top
FallbackStart(p) == <<AnchorOf(p)[3] + Margin, AnchorOf(p)[2] + 5>>

\* C6 as stated: the fallback rectangle starts at (anchor right + margin,
\* anchor top + 5) and is clamped so that it lies inside the canvas; a
\* rectangle that already fits is not moved.
C6_FallbackInsideCanvas ==
    \A p \in Passes :
        (pc[p] = "draw" /\ cand[p] > 6) =>
            /\ InCanvas(PaddedRect(best_pos[p], text_w[p], text_h[p]), p)
            /\ InCanvas(PaddedRect(FallbackStart(p), text_w[p], text_h[p]), p)
                  => best_pos[p] = FallbackStart(p)

\* C6 (amended): the fallback rectangle starts at (anchor right + margin,
\* anchor top + 5); its left and top edges are never negative, its right edge
\* does not exceed the canvas when the block is no wider than the canvas, its
\* bottom edge does not exceed the canvas when the block is no taller than the
\* canvas, and a rectangle that already fits is not moved.
C6_FallbackClamped ==
    \A p \in Passes :
        (pc[p] = "draw" /\ cand[p] > 6) =>
            LET r == PaddedRect(best_pos[p], text_w[p], text_h[p])
            IN  /\ r[1] >= 0 /\ r[2] >= 0
                /\ text_w[p] <= img_w[p] => r[3] <= img_w[p]
                /\ text_h[p] <= img_h[p] => r[4] <= img_h[p]
                /\ InCanvas(PaddedRect(FallbackStart(p), text_w[p], text_h[p]), p)
                      => best_pos[p] = FallbackStart(p)

\* the fallback left a rectangle that already fitted where it started
C6_Witness ==
    \E p \in Passes :
        /\ pc[p] = "draw"
        /\ cand[p] > 6
        /\ InCanvas(PaddedRect(FallbackStart(p), text_w[p], text_h[p]), p)
        /\ best_pos[p] = FallbackStart(p)

(***************************************************************************)
(* C7                                                                      *)
(***************************************************************************)
\* the anchor of ranked item i of a pass, as (x, y, w, h)
BboxOfItem(p, i) == detections_map[p][ranked_profiles[p][i][1]].bbox

\* C7: a rectangle placed by the fallback is appended to occupied_regions like
\* any other, and no block placed later in the pass from a candidate overlaps it.
C7_FallbackRegistered ==
    \A p \in Passes :
        /\ Len(occupied_regions[p]) = Len(Blocks(p))
        /\ \A i \in DOMAIN Blocks(p) :
              ByFallback(Blocks(p)[i]) =>
                 /\ occupied_regions[p][i] = Blocks(p)[i].rect
                 /\ \A j \in DOMAIN Blocks(p) :
                       (j > i /\ ~ByFallback(Blocks(p)[j]))
                          => ~Intersect(Blocks(p)[j].rect, Blocks(p)[i].rect)
                 /\ (pc[p] = "draw" /\ cand[p] <= 6) =>
                       ~Intersect(PaddedRect(best_pos[p], text_w[p], text_h[p]),
                                  Blocks(p)[i].rect)

\* a later item passed over a candidate that lay in the canvas on a fallback rectangle
C7_Witness ==
    \E p \in Passes : \E i, j \in DOMAIN Blocks(p) :
        /\ i < j
        /\ ByFallback(Blocks(p)[i])
        /\ ~ByFallback(Blocks(p)[j])
        /\ LET rj == Blocks(p)[j].rect
               tw == rj[3] - rj[1]
               th == rj[4] - rj[2]
           IN  \E k \in 1..(Blocks(p)[j].cand - 1) :
                  LET rk == PaddedRect(candidate_positions(BboxOfItem(p, Blocks(p)[j].item),
                                                           tw, th)[k], tw, th)
                  IN  /\ InCanvas(rk, p)
                      /\ Intersect(rk, Blocks(p)[i].rect)

(***************************************************************************)
(* C8                                                                      *)
(***************************************************************************)
\* the ids the detections name
DetectedIds(p) == {all_detections[p][i].id : i \in DOMAIN all_detections[p]}

\* the colour of the tier of a score in hundredths: red, yellow, green as BGR
TierColour(score) ==
    IF score <= 33 THEN <<0, 0, 255>>
    ELSE IF score <= 66 THEN <<0, 255, 255>>
    ELSE <<0, 255, 0>>

\* the items of a pass whose anchor step is over
AnchorDue(p) ==
    {i \in 1..idx[p] : /\ ranked_profiles[p][i][1] \in DetectedIds(p)
                       /\ pc[p] # "start"
                       /\ (i < idx[p] \/ pc[p] # "anchor")}

Registered(p) ==
    {i \in 1..idx[p] : /\ ranked_profiles[p][i][1] \in DetectedIds(p)
                       /\ (i < idx[p] \/ pc[p] \in {"loop", "done"})}

\* C9: items are processed one at a time in the order of ranked_profiles; the
\* k-th rectangle of occupied_regions is the block of the k-th processed item
\* with a detection, the anchor of an item is drawn before its block, and
\* while an item is searched or drawn every earlier item is registered and the
\* item itself is not.
C9_OneItemAtATimeInOrder ==
    \A p \in Passes :
        /\ Len(occupied_regions[p]) = Cardinality(Registered(p))
        /\ Len(Blocks(p)) = Cardinality(Registered(p))
        /\ \A k \in DOMAIN Blocks(p) :
              /\ Blocks(p)[k].item \in Registered(p)
              /\ Cardinality({i \in Registered(p) : i <= Blocks(p)[k].item}) = k
              /\ occupied_regions[p][k] = Blocks(p)[k].rect
        /\ \A m, n \in DOMAIN image[p] :
              (m < n /\ image[p][n].op # "imwrite" /\ image[p][m].op # "imwrite") =>
                 /\ image[p][m].item <= image[p][n].item
                 /\ image[p][m].item = image[p][n].item =>
                       image[p][m].op = "rectangle" /\ image[p][n].op = "text_block"
        /\ Placing(p) =>
              /\ idx[p] \notin Registered(p)
              /\ \E n \in DOMAIN image[p] :
                    image[p][n].op = "rectangle" /\ image[p][n].item = idx[p]
              /\ lines_for_annotation[p] # <<>>
              /\ text_w[p] > 0 /\ text_h[p] > 0

\* a finished pass that skipped an item without a detection between two blocks
C9_Witness ==
    \E p \in Passes :
        /\ pc[p] = "done"
        /\ Len(Blocks(p)) = 2
        /\ Blocks(p)[1].item = 1
        /\ Blocks(p)[2].item = 3
        /\ occupied_regions[p][1] # occupied_regions[p][2]

(***************************************************************************)
(* C10                                                                     *)
(***************************************************************************)
\* the two passes work on the same canvas, detections and profiles
SameScene ==
    /\ img_w[1] = img_w[2]
    /\ img_h[1] = img_h[2]
    /\ all_detections[1] = all_detections[2]
    /\ profiles_data[1] = profiles_data[2]

\* the ordered inputs of the two passes agree on their first k items
AgreeUpTo(k) ==
    /\ k <= Len(ranked_profiles[1])
    /\ k <= Len(ranked_profiles[2])
    /\ SubSeq(ranked_profiles[1], 1, k) = SubSeq(ranked_profiles[2], 1, k)

\* C10: two passes on the same canvas whose inputs agree on the first k items
\* register identical rectangles for those k items, whatever follows them.
C10_PrefixDeterminesPlacement ==
    \A k \in 0..Min(Len(ranked_profiles[1]), Len(ranked_profiles[2])) :
        (SameScene /\ AgreeUpTo(k)) =>
            \A m \in DOMAIN Blocks(1) : \A n \in DOMAIN Blocks(2) :
                (Blocks(1)[m].item = Blocks(2)[n].item /\ Blocks(1)[m].item <= k) =>
                    /\ m = n
                    /\ occupied_regions[1][m] = occupied_regions[2][n]
                    /\ Blocks(1)[m].cand = Blocks(2)[n].cand

\* two finished passes that agree on the first item only and placed it alike
C10_Witness ==
    /\ pc[1] = "done" /\ pc[2] = "done"
    /\ SameScene
    /\ AgreeUpTo(1)
    /\ Len(ranked_profiles[1]) = 1
    /\ Len(ranked_profiles[2]) = 2
    /\ Len(occupied_regions[1]) = 1
    /\ Len(occupied_regions[2]) = 2
    /\ occupied_regions[1][1] = occupied_regions[2][1]

(***************************************************************************)
(* C11                                                                     *)
(***************************************************************************)
\* the rectangle item i of a pass gets when the pass runs on its own and the
\* earlier items left the rectangles regions
AloneRect(p, i, regions) ==
    LET b == BboxOfItem(p, i)
        lines == BuildLines(profiles_data[p], ranked_profiles[p][i][1], ranked_profiles[p][i][2])
        d == get_text_block_dimensions(lines)
        cp == candidate_positions(b, d[1], d[2])
        ok == {k \in 1..6 :
                 /\ InCanvas(PaddedRect(cp[k], d[1], d[2]), p)
                 /\ \A n \in DOMAIN regions : ~Intersect(PaddedRect(cp[k], d[1], d[2]), regions[n])}
        pos == IF ok # {} THEN cp[CHOOSE k \in ok : \A m \in ok : k <= m]
               ELSE fallback_pos(b, d[1], d[2], img_w[p], img_h[p])
    IN  PaddedRect(final_text_pos(pos), d[1], d[2])

\* the rectangles a pass registers from item i on when it runs on its own
RECURSIVE AloneRegions(_, _, _)
AloneRegions(p, i, regions) ==
    IF i > Len(ranked_profiles[p]) THEN regions
    ELSE IF ranked_profiles[p][i][1] \notin DetectedIds(p) THEN AloneRegions(p, i + 1, regions)
    ELSE AloneRegions(p, i + 1, Append(regions, AloneRect(p, i, regions)))

\* C11: every pass starts with no occupied region, and the rectangles it
\* registers are those it registers when run on its own from an empty set,
\* whatever the other pass does in between.
C11_PassesIndependent ==
    \A p \in Passes :
        /\ (pc[p] = "loop" /\ idx[p] = 0) => occupied_regions[p] = <<>>
        /\ pc[p] \notin {"start", "idle"} =>
              LET alone == AloneRegions(p, 1, <<>>)
              IN  /\ Len(occupied_regions[p]) <= Len(alone)
                  /\ occupied_regions[p] = SubSeq(alone, 1, Len(occupied_regions[p]))
                  /\ pc[p] = "done" => occupied_regions[p] = alone

\* both passes are in the middle of an item and hold different rectangles
C11_Witness ==
    /\ Placing(1) /\ Placing(2)
    /\ occupied_regions[1] # <<>> /\ occupied_regions[2] # <<>>
    /\ occupied_regions[1] # occupied_regions[2]

(***************************************************************************)
(* Vocabulary of the wrap properties                                       *)
(***************************************************************************)
\* the pass holds the wrapped lines of its current item
Wrapped(p) == pc[p] \in {"measure", "search", "fallback", "draw"}

\* the body text of the current item and the lines the wrap made of it
BioOf(p) == bio_to_display(profiles_data[p], ranked_profiles[p][idx[p]][1])

BioLines(p) == SubSeq(lines_for_annotation[p], 3, Len(lines_for_annotation[p]))

\* the tokens of a string: its maximal runs of characters other than the space
TokenStarts(s) == {i \in DOMAIN s : s[i] # " " /\ (i = 1 \/ s[i - 1] = " ")}

TokenEnd(s, i) == CHOOSE j \in i..Len(s) :
                      /\ \A n \in i..j : s[n] # " "
                      /\ (j = Len(s) \/ s[j + 1] = " ")

RECURSIVE TokensFrom(_, _)
TokensFrom(s, i) ==
    IF \A j \in TokenStarts(s) : j < i THEN <<>>
    ELSE LET a == CHOOSE j \in TokenStarts(s) : j >= i /\ \A n \in TokenStarts(s) : n >= i => j <= n
         IN  <<SubSeq(s, a, TokenEnd(s, a))>> \o TokensFrom(s, TokenEnd(s, a) + 1)

Tokens(s) == TokensFrom(s, 1)

\* " ".join(strings)
RECURSIVE Join(_)
Join(strings) ==
    IF strings = <<>> THEN <<>>
    ELSE IF Len(strings) = 1 THEN strings[1]
    ELSE strings[1] \o <<" ">> \o Join(Tail(strings))

\* the width of a string in pixels
Width(s) == IF s = <<>> THEN 0
            ELSE LET w[i \in 0..Len(s)] == IF i = 0 THEN 0 ELSE w[i - 1] + GlyphW(s[i])
                 IN  w[Len(s)]

(***************************************************************************)
(* C13                                                                     *)
(***************************************************************************)
\* C13 as stated: an empty body text contributes no line to the text block.
C13_EmptyBioNoLine ==
    \A p \in Passes : (Wrapped(p) /\ BioOf(p) = <<>>) => BioLines(p) = <<>>

\* C13 (amended): an empty body text contributes exactly one line to the text
\* block, the bare prefix "Bio:".
C13_EmptyBioPrefixLine ==
    \A p \in Passes :
        (Wrapped(p) /\ BioOf(p) = <<>>) =>
            /\ BioLines(p) = << <<"B", "i", "o", ":">> >>
            /\ Len(lines_for_annotation[p]) = 3

\* an item with an empty body text has been wrapped and drawn
C13_Witness ==
    \E p \in Passes : \E n \in DOMAIN Blocks(p) :
        /\ profiles_data[p][ranked_profiles[p][Blocks(p)[n].item][1]].bio = <<>>
        /\ Len(Blocks(p)[n].lines) = 3

(***************************************************************************)
(* C14                                                                     *)
(***************************************************************************)
\* C14: for a body text with at least one token, the wrapped lines joined with
\* single spaces are the prefix and the tokens of the input joined with single
\* spaces: no token is dropped, duplicated, reordered or altered.
C14_JoinedLinesAreNormalizedInput ==
    \A p \in Passes :
        (Wrapped(p) /\ Tokens(BioOf(p)) # <<>>) =>
            Join(BioLines(p)) = Join(<<BioPrefix>> \o Tokens(BioOf(p)))

HoldsToken(line) == line # <<>> /\ line # BioPrefix

\* the greedy step: the candidate "current line + space + token" is measured;
\* the current line is flushed and the token starts a new line exactly when the
\* candidate is over the budget and the current line holds a token, otherwise
\* the token joins the current line; after the last token the current line is
\* flushed only if it is not empty
RECURSIVE GreedyLines(_, _, _)
GreedyLines(tokens, current, lines) ==
    IF tokens = <<>>
    THEN IF current # <<>> THEN Append(lines, current) ELSE lines
    ELSE LET candidate == Strip(current \o <<" ">> \o Head(tokens))
         IN  IF Width(candidate) > text_block_max_width /\ HoldsToken(current)
             THEN GreedyLines(Tail(tokens), Head(tokens), Append(lines, current))
             ELSE GreedyLines(Tail(tokens), candidate, lines)

\* C16: the lines of the wrap are the lines the greedy step makes, token by
\* token, of the body text: a flush happens exactly when the candidate is over
\* the budget and the current line is non-empty.
C16_GreedyStep ==
    \A p \in Passes :
        Wrapped(p) => BioLines(p) = GreedyLines(Split(BioOf(p)), BioPrefix, <<>>)

(***************************************************************************)
(* Vocabulary of the function properties                                   *)
(***************************************************************************)
Called(p, f) == call[p].fn = f

\* the width of the widest of a non-empty list of lines
Widest(text_lines) ==
    CHOOSE w \in {Width(text_lines[i]) : i \in DOMAIN text_lines} :
        \A i \in DOMAIN text_lines : Width(text_lines[i]) <= w

(***************************************************************************)
(* C17                                                                     *)
(***************************************************************************)
\* C17: for a non-empty list of n lines get_text_block_dimensions returns
\* width = min(widest line, max width) + 2*padding and
\* height = n*(line height + spacing) - spacing + 2*padding, padding and
\* spacing being 5; for the empty list it returns (0, 0); the width is never
\* more than max width + 2*padding.
C17_BlockDimensions ==
    \A p \in Passes :
        Called(p, "get_text_block_dimensions") =>
            LET text_lines == call[p].args[1]
                n == Len(text_lines)
            IN  /\ text_lines = <<>> => call[p].ret = <<0, 0>>
                /\ text_lines # <<>> =>
                      /\ call[p].ret[1] = Min(Widest(text_lines), text_block_max_width) + 2 * 5
                      /\ call[p].ret[2] = n * (sample_line_height + 5) - 5 + 2 * 5
                /\ call[p].ret[1] <= text_block_max_width + 2 * 5

\* one call on the empty list and one on two lines, the wider over the budget
C17_Witness ==
    /\ Called(1, "get_text_block_dimensions") /\ call[1].args[1] = <<>>
    /\ Called(2, "get_text_block_dimensions") /\ Len(call[2].args[1]) = 2
    /\ Widest(call[2].args[1]) > text_block_max_width
    /\ call[2].ret = <<260, 31>>

(***************************************************************************)
(* C18                                                                     *)
(***************************************************************************)
\* the rectangles have a boundary point in common and no interior point
OnlyTouch(a, b) ==
    /\ a[1] <= b[3] /\ b[1] <= a[3] /\ a[2] <= b[4] /\ b[2] <= a[4]
    /\ (a[1] = b[3] \/ b[1] = a[3] \/ a[2] = b[4] \/ b[2] = a[4])

\* C18: for rectangles with x1 < x2 and y1 < y2, check_overlap(A, B) is true
\* exactly when A.x1 < B.x2, B.x1 < A.x2, A.y1 < B.y2 and B.y1 < A.y2; it
\* gives the same answer for (B, A); rectangles that share only a boundary
\* edge or corner do not overlap.
C18_OverlapIffStrictProjections ==
    /\ \A p \in Passes :
          Called(p, "check_overlap") =>
              LET A == call[p].args[1]
                  B == call[p].args[2]
              IN  /\ call[p].ret = (A[1] < B[3] /\ B[1] < A[3] /\ A[2] < B[4] /\ B[2] < A[4])
                  /\ OnlyTouch(A, B) => call[p].ret = FALSE
    /\ \A p, q \in Passes :
          (/\ Called(p, "check_overlap") /\ Called(q, "check_overlap")
           /\ call[p].args = <<call[q].args[2], call[q].args[1]>>) =>
              call[p].ret = call[q].ret

\* check_overlap called on two rectangles that share an edge, in both orders
C18_Witness ==
    /\ Called(1, "check_overlap") /\ Called(2, "check_overlap")
    /\ call[1].args = <<<<0, 0, 2, 2>>, <<2, 0, 4, 2>>>>
    /\ call[2].args = <<<<2, 0, 4, 2>>, <<0, 0, 2, 2>>>>
    /\ call[1].ret = FALSE

(***************************************************************************)
(* C19                                                                     *)
(***************************************************************************)
Red == <<0, 0, 255>>

Yellow == <<0, 255, 255>>

Green == <<0, 255, 0>>

Tier(colour) == IF colour = Red THEN 1 ELSE IF colour = Yellow THEN 2 ELSE 3

\* C20: get_color_for_relevance returns one of exactly three colours, distinct
\* for the scores 0, 0.5 and 1, and for scores s1 < s2 the tier of the colour
\* of s1 is not higher than the tier of the colour of s2.
C20_ThreeColoursMonotone ==
    /\ \A p \in Passes :
          Called(p, "get_color_for_relevance") => call[p].ret \in {Red, Yellow, Green}
    /\ \A p, q \in Passes :
          (Called(p, "get_color_for_relevance") /\ Called(q, "get_color_for_relevance")) =>
              /\ call[p].args[1] < call[q].args[1] => Tier(call[p].ret) <= Tier(call[q].ret)
              /\ (call[p].args[1] \in {0, 50, 100} /\ call[q].args[1] \in {0, 50, 100}
                  /\ call[p].args[1] # call[q].args[1]) => call[p].ret # call[q].ret

\* two scores in different tiers have been passed, the higher one second
C20_Witness ==
    /\ Called(1, "get_color_for_relevance") /\ Called(2, "get_color_for_relevance")
    /\ call[1].args[1] < call[2].args[1]
    /\ Tier(call[1].ret) = 2 /\ Tier(call[2].ret) = 3

(***************************************************************************)
(* C21                                                                     *)
(***************************************************************************)
\* the pass is placing the block of its first item with a detection
PlacingFirst(p) == Placing(p) /\ Blocks(p) = <<>>

\* the candidates of the current item whose padded rectangle is inside the canvas
InsideCandidates(p) ==
    {k \in 1..6 :
        InCanvas(PaddedRect(candidate_positions(Bbox(p), text_w[p], text_h[p])[k],
                            text_w[p], text_h[p]), p)}

\* C21: while the first item of a pass is placed occupied_regions is empty, and
\* the position chosen for it is the first candidate whose padded rectangle is
\* inside the canvas; an anchor at (100,100) of size 80x80 on a 1024x768 canvas
\* that is placed first gets its block right of the anchor when the block is
\* inside the canvas there.
C21_FirstItemTakesFirstInsideCandidate ==
    \A p \in Passes :
        PlacingFirst(p) =>
            /\ occupied_regions[p] = <<>>
            /\ pc[p] \in {"fallback", "draw"} =>
                  /\ cand[p] <= 6 =>
                        /\ cand[p] \in InsideCandidates(p)
                        /\ \A k \in InsideCandidates(p) : cand[p] <= k
                  /\ cand[p] > 6 => InsideCandidates(p) = {}
                  /\ (/\ img_w[p] = 1024 /\ img_h[p] = 768
                      /\ Bbox(p) = <<100, 100, 80, 80>>
                      /\ 185 + text_w[p] - 5 <= 1024 /\ 100 + text_h[p] - 5 <= 768) =>
                        cand[p] = 1 /\ best_pos[p] = <<185, 100>>

\* the anchor at (100,100) is placed first on the 1024x768 canvas, right of the anchor
C21_Witness ==
    \E p \in Passes :
        /\ PlacingFirst(p) /\ pc[p] = "draw"
        /\ img_w[p] = 1024 /\ img_h[p] = 768
        /\ Bbox(p) = <<100, 100, 80, 80>>
        /\ best_pos[p] = <<185, 100>>

(***************************************************************************)
(* C22                                                                     *)
(***************************************************************************)
\* the ranked entries of a pass that have a detection
DetectedEntries(p) ==
    {i \in DOMAIN ranked_profiles[p] : ranked_profiles[p][i][1] \in DetectedIds(p)}

\* C22: a pass that is scheduled fairly reaches the end of annotate_image; it
\* visits the ranked entries one by one, each once; it tests at most six
\* candidates for an item; it ends only after the last entry, with a block
\* drawn for every entry that has a detection, exhausted placements included.
C22_PassTerminates ==
    /\ \A p \in Passes : (pc[p] = "start") ~> (pc[p] = "done")
    /\ [][\A p \in Passes :
            /\ idx'[p] \in {idx[p], idx[p] + 1}
            /\ idx'[p] = idx[p] + 1 <=> (pc[p] = "loop" /\ pc'[p] # "done")
            /\ (pc[p] = "search" /\ pc'[p] # pc[p]) => cand[p] <= 6
            /\ cand'[p] <= 7
            /\ (pc'[p] = "done" /\ pc[p] # "done") =>
                  /\ idx[p] = Len(ranked_profiles[p])
                  /\ {Blocks(p)[n].item : n \in DOMAIN Blocks(p)} = DetectedEntries(p)]_vars

\* a pass has ended after an item without a detection and an exhausted placement
C22_Witness ==
    \E p \in Passes :
        /\ pc[p] = "done"
        /\ \E n \in DOMAIN Blocks(p) : ByFallback(Blocks(p)[n])
        /\ DetectedEntries(p) # DOMAIN ranked_profiles[p]

(***************************************************************************)
(* C23                                                                     *)
(***************************************************************************)
\* the ids the ranked list of a pass names
RankedIds(p) == {ranked_profiles[p][i][1] : i \in DOMAIN ranked_profiles[p]}

\* the drawing calls of a kind a pass made for an id
DrawnFor(p, kind, id) ==
    {n \in DOMAIN image[p] :
        /\ image[p][n].op = kind
        /\ ranked_profiles[p][image[p][n].item][1] = id}

\* C23: after a pass every detection whose id the ranked list names has exactly
\* one stroked rectangle, drawn at its own bounding box, and at most one text
\* block, which is registered; also when an id occurs more than once in a list.
C23_OneBoxOneBlockPerAnchor ==
    \A p \in Passes :
        pc[p] = "done" =>
            \A d \in DOMAIN all_detections[p] :
                LET id == all_detections[p][d].id
                IN  id \in RankedIds(p) =>
                        /\ Cardinality(DrawnFor(p, "rectangle", id)) = 1
                        /\ \A n \in DrawnFor(p, "rectangle", id) :
                              image[p][n].rect = anchor_rect(all_detections[p][d].bbox)
                        /\ Cardinality(DrawnFor(p, "text_block", id)) <= 1
                        /\ \A n \in DrawnFor(p, "text_block", id) :
                              \E i \in DOMAIN occupied_regions[p] :
                                  occupied_regions[p][i] = image[p][n].rect

(***************************************************************************)
(* C24                                                                     *)
(***************************************************************************)
\* the positions of the detected ids that have a profile
Eligible(detected_ids, all_profiles_data) ==
    {i \in DOMAIN detected_ids : detected_ids[i] \in DOMAIN all_profiles_data}

\* C24: rank_profiles returns the detected ids that have a profile, each with
\* its relevance, by non-increasing relevance, ids of equal relevance in
\* detection order, cut to at most top_k entries; the result is empty when
\* detected_ids or the profile data is empty or no detected id has a profile.
C24_RankedByScoreStable ==
    \A p \in Passes :
        Called(p, "rank_profiles") =>
            LET detected_ids == call[p].args[1]
                all_profiles_data == call[p].args[2]
                top_k == call[p].args[3]
                ranked == call[p].ret
                E == Eligible(detected_ids, all_profiles_data)
                score(i) == all_profiles_data[detected_ids[i]].relevance
                Before(j, i) == score(j) > score(i) \/ (score(j) = score(i) /\ j < i)
            IN  /\ Len(ranked) = Min(top_k, Cardinality(E))
                /\ \A k \in DOMAIN ranked :
                      \E i \in E :
                          /\ ranked[k] = <<detected_ids[i], score(i)>>
                          /\ Cardinality({j \in E : Before(j, i)}) = k - 1
                /\ \A k \in 1..(Len(ranked) - 1) : ranked[k][2] >= ranked[k + 1][2]
                /\ (detected_ids = <<>> \/ DOMAIN all_profiles_data = {} \/ E = {}) =>
                      ranked = <<>>

\* a call that drops an id without a profile, keeps two ids of equal relevance
\* in detection order behind a better one, and cuts the list
C24_Witness ==
    \E p \in Passes :
        /\ Called(p, "rank_profiles")
        /\ call[p].args[1] = <<"id4", "id3", "id2">>
        /\ call[p].ret = <<<<"id4", 50>>, <<"id2", 50>>>>
        /\ \E q \in Passes :
              /\ Called(q, "rank_profiles")
              /\ call[q].args[1] = <<"id2", "id4", "id1">>
              /\ call[q].args[3] = 2
              /\ call[q].ret = <<<<"id1", 95>>, <<"id2", 50>>>>

(***************************************************************************)
(* C25                                                                     *)
(***************************************************************************)
\* the text blocks a pass drew over an anchor rectangle it had drawn before:
\* pairs of a block and an anchor box, as indices of image
Covered(p) ==
    {<<b, a>> \in (DOMAIN image[p]) \X (DOMAIN image[p]) :
        /\ a < b
        /\ image[p][a].op = "rectangle"
        /\ image[p][b].op = "text_block"
        /\ Intersect(image[p][b].rect, image[p][a].rect)}

\* C25 as stated: no text block drawn after an anchor rectangle overlaps it.
C25_NoBlockOverAnchor == \A p \in Passes : Covered(p) = {}

\* C25 (amended): a text block placed from an accepted candidate does not
\* overlap the anchor rectangle of its own item, which is drawn before it; a
\* block may overlap the anchor of another item, and a block placed by the
\* fallback may overlap its own anchor.
C25_CandidateBlockOffOwnAnchor ==
    \A p \in Passes :
        \A c \in Covered(p) :
            \/ image[p][c[1]].item # image[p][c[2]].item
            \/ ByFallback(image[p][c[1]])

\* a block placed from a candidate lies over the anchor of an item drawn before
C25_Witness ==
    \E p \in Passes : \E c \in Covered(p) :
        /\ ~ByFallback(image[p][c[1]])
        /\ image[p][c[1]].item # image[p][c[2]].item

(***************************************************************************)
(* C26                                                                     *)
(***************************************************************************)
\* the rectangle the candidate loop tests for the block of a list of lines at
\* a position: (x-5, y-5, x+text_w-5, y+text_h-5)
TestedRect(text_lines, position) ==
    LET dims == get_text_block_dimensions(text_lines)
    IN  <<position[1] - 5, position[2] - 5,
          position[1] + dims[1] - 5, position[2] + dims[2] - 5>>

\* C26 as stated: for every list of lines the bounding box
\* draw_multiline_text_with_background returns at (x, y) is
\* (x-5, y-5, x+text_w-5, y+text_h-5), (text_w, text_h) being the result of
\* get_text_block_dimensions for the same lines.
C26_DrawnIsTested ==
    \A p \in Passes :
        Called(p, "draw_multiline_text_with_background") =>
            call[p].ret = TestedRect(call[p].args[1], call[p].args[2])

\* C26 (amended): the same for every non-empty list of lines, and so for the
\* rectangle registered for an accepted candidate; for the empty list the box
\* returned is the point (x, y, x, y), not (x-5, y-5, x-5, y-5).
C26_DrawnIsTestedNonEmpty ==
    /\ \A p \in Passes :
          Called(p, "draw_multiline_text_with_background") =>
              /\ call[p].args[1] # <<>> =>
                    call[p].ret = TestedRect(call[p].args[1], call[p].args[2])
              /\ call[p].args[1] = <<>> =>
                    call[p].ret = <<call[p].args[2][1], call[p].args[2][2],
                                    call[p].args[2][1], call[p].args[2][2]>>
    /\ \A p \in Passes : \A n \in DOMAIN Blocks(p) :
          LET b == Blocks(p)[n]
          IN  ~ByFallback(b) =>
                  \E k \in 1..6 :
                      b.rect = TestedRect(b.lines,
                                   candidate_positions(
                                       detections_map[p][ranked_profiles[p][b.item][1]].bbox,
                                       get_text_block_dimensions(b.lines)[1],
                                       get_text_block_dimensions(b.lines)[2])[k])

\* a block of two lines, one wider than the budget, has been drawn at (185,100)
C26_Witness ==
    \E p \in Passes :
        /\ Called(p, "draw_multiline_text_with_background")
        /\ Len(call[p].args[1]) = 2
        /\ Widest(call[p].args[1]) > text_block_max_width
        /\ call[p].args[2] = <<185, 100>>
        /\ call[p].ret = <<180, 95, 440, 126>>

(***************************************************************************)
(* C27                                                                     *)
(***************************************************************************)
\* the blocks of a pass that the fallback placed
FallbackBlocks(p) == SelectSeq(Blocks(p), LAMBDA o : o.cand > 6)

\* C27: a block placed by the fallback that is no wider and no taller than
\* the canvas lies entirely inside the canvas, wherever its anchor is; one
\* that is wider than the canvas has its left edge at 0 (text at x = 5) and
\* its right edge beyond the canvas, one that is taller has its top edge at 0
\* and its bottom edge beyond the canvas.
C27_FallbackFitsOrLeftTopWins ==
    \A p \in Passes :
        \A i \in DOMAIN FallbackBlocks(p) :
            LET r == FallbackBlocks(p)[i].rect
                w == r[3] - r[1]
                h == r[4] - r[2]
            IN  /\ (w <= img_w[p] /\ h <= img_h[p]) => InCanvas(r, p)
                /\ w > img_w[p] => (r[1] = 0 /\ r[3] > img_w[p])
                /\ h > img_h[p] => (r[2] = 0 /\ r[4] > img_h[p])

\* the fallback moved a block that fits in the canvas back to the right edge
\* and, in the same call, placed a block that is wider than the canvas
C27_Witness ==
    \E p \in Passes :
        \E i, j \in DOMAIN FallbackBlocks(p) :
            LET r == FallbackBlocks(p)[i].rect
                s == FallbackBlocks(p)[j].rect
            IN  /\ r[3] - r[1] <= img_w[p]
                /\ r[4] - r[2] <= img_h[p]
                /\ r[3] = img_w[p]
                /\ s[3] - s[1] > img_w[p]
                /\ s[1] = 0

(***************************************************************************)
(* C28                                                                     *)
(***************************************************************************)
\* C28: the rectangle registered for a block contains every line drawn for
\* it: the measured width of each line is at most the width of the rectangle
\* less the padding on both sides, also for a line that holds a token wider
\* than text_block_max_width.
C28_RectangleContainsEveryLine ==
    \A p \in Passes :
        \A i \in DOMAIN Blocks(p) :
            LET b == Blocks(p)[i]
            IN  \A k \in DOMAIN b.lines :
                    Width(b.lines[k]) <= (b.rect[3] - b.rect[1]) - 2 * bg_padding

(***************************************************************************)
(* C29                                                                     *)
(***************************************************************************)
\* C29: occupied_regions only grows during a pass, by one rectangle at a time
\* and exactly when the block of an item is drawn; the measured block of an
\* item is never empty, so the skip of line 209 is never taken; each time the
\* loop is back at its head, and so at the end of the pass, the number of
\* rectangles is the number of ranked entries handled so far whose id has a
\* detection.
C29_OneRegionPerDetectedItem ==
    [][\A p \in Passes :
          LET old == occupied_regions[p]
              new == occupied_regions'[p]
          IN  /\ Len(new) \in {Len(old), Len(old) + 1}
              /\ SubSeq(new, 1, Len(old)) = old
              /\ Len(new) = Len(old) + 1 <=> (pc[p] = "draw" /\ pc'[p] = "loop")
              /\ (pc[p] = "measure" /\ pc'[p] # "measure") =>
                    (pc'[p] = "search" /\ text_w'[p] > 0 /\ text_h'[p] > 0)
              /\ pc'[p] \in {"loop", "done"} =>
                    Len(new) = Cardinality({i \in DetectedEntries(p) : i <= idx'[p]})
              /\ pc'[p] = "done" => Len(new) = Cardinality(DetectedEntries(p))]_vars

\* a pass has ended with two rectangles and fewer rectangles than ranked entries
C29_Witness ==
    \E p \in Passes :
        /\ pc[p] = "done"
        /\ Len(occupied_regions[p]) >= 2
        /\ Len(occupied_regions[p]) < Len(ranked_profiles[p])

(***************************************************************************)
(* C30                                                                     *)
(***************************************************************************)
\* the positions of a pipeline inside annotate_image
InAnnotate == {"start", "loop", "anchor", "wrap", "measure", "search", "fallback", "draw", "done"}

\* C30: the pipeline detects, then loads the profiles, then ranks, then
\* annotates; annotate_image is entered only from the ranking and only with
\* at least one detection, one profile and one ranked entry; when nothing is
\* detected or no profile is loaded the pipeline returns at once, no later
\* step having run; a pipeline that returned without annotate_image has drawn
\* and written nothing.
C30_PipelineOrder ==
    [][\A p \in Passes :
          /\ pc'[p] # pc[p] =>
                /\ pc'[p] = "load" => (pc[p] = "detect" /\ all_detections'[p] # <<>>)
                /\ pc'[p] = "rank" => (pc[p] = "load" /\ DOMAIN profiles_data'[p] # {})
                /\ pc'[p] = "start" =>
                      /\ pc[p] = "rank"
                      /\ all_detections'[p] # <<>>
                      /\ DOMAIN profiles_data'[p] # {}
                      /\ ranked_profiles'[p] # <<>>
                /\ (pc[p] = "detect" /\ all_detections'[p] = <<>>) =>
                      (pc'[p] = "returned" /\ DOMAIN profiles_data'[p] = {}
                          /\ ranked_profiles'[p] = <<>>)
                /\ (pc[p] = "load" /\ DOMAIN profiles_data'[p] = {}) =>
                      (pc'[p] = "returned" /\ ranked_profiles'[p] = <<>>)
                /\ pc'[p] = "returned" => pc[p] \in {"detect", "load", "rank"}
                /\ pc[p] \in InAnnotate => pc'[p] \in InAnnotate
          /\ pc[p] = "returned" => pc'[p] = "returned"
          /\ pc'[p] \notin InAnnotate => image'[p] = <<>>]_vars

\* one pipeline has returned after an empty ranking, without an image written
C30_Witness ==
    \E p \in Passes :
        /\ pc[p] = "returned"
        /\ all_detections[p] # <<>>
        /\ DOMAIN profiles_data[p] # {}
        /\ ranked_profiles[p] = <<>>
        /\ image[p] = <<>>

====
